---- MODULE Spec2Model ----
(***************************************************************************)
(* Model of the micromouse sensor drivers: the VL53L1X and VL53L0X         *)
(* continuous measurement tasks, the shared I2C bus mutex they lock, and   *)
(* the fleet initializer that constructs the sensors.                      *)
(*                                                                         *)
(* A task is a coroutine; its position is a pc variable.  Every bus        *)
(* operation of the source is written                                      *)
(*     { op(&mut device, &mut *self_.i2c.lock().await) }                   *)
(* so it is two steps here: the lock (granted only while the mutex is      *)
(* free) and the operation itself, at the end of which the guard, a        *)
(* temporary of the block's tail expression, is dropped (the rule of the   *)
(* 2024 edition, which the braces around every operation rely on and the   *)
(* ordering of the `use` lists shows).  The outcome of every device        *)
(* operation is chosen by the environment.  The steps of the two tasks     *)
(* interleave freely, which covers every schedule of the executor.         *)
(*                                                                         *)
(* Spec is the running system: both sensors constructed, both tasks        *)
(* spawned.  SpecInit is init_i2c_devices from its entry, as far as the    *)
(* code lets it get.  FairSpec is Spec under the executor's scheduling,    *)
(* LiveSpec adds a device that raises its ready edges.  SpecFleet is       *)
(* init_i2c_devices from its entry and from the point where sensor 0 is    *)
(* constructed.  SpecAccess is Spec with a caller of the getters.          *)
(***************************************************************************)
EXTENDS Naturals, Sequences, FiniteSets

\* ---------------------------------------------------------------- bounds
\* Longest log of reads / callback invocations that is recorded.
MaxLog == 2
\* Cap of the counters of readiness probes and of 10 ms suspensions.
MaxCount == 4

\* ------------------------------------------------------ program constants
ProbeRetryMs == 10
RecoverDelayMs == 100
RecoverFailedMs == 500

\* ------------------------------------------------------------ value sets
\* RangeStatus of the vl53l1 driver: valid, SIGNAL_FAIL, any other failure.
Statuses == {"Valid", "SignalFail", "OtherFail"}
Ranges == {120, 121}
RangingMeasurementData == [range : Ranges, status : Statuses]
\* RangingMeasurementData::default()
DefaultData == [range |-> 0, status |-> "None"]
\* u16 distances of the VL53L0X
Distances == {0, 77}

\* Positions of the VL53L1X task.  "terminated" is the position a task that
\* returned or panicked would be in; the loop of the task has no exit.
L1BusPcs == {"probe", "read", "rearm", "rec_stop", "rec_start"}
L1TimerPcs == {"probe_delay", "rec_delay", "backoff"}
L1Pcs == L1BusPcs \cup L1TimerPcs \cup {"wait_edge", "terminated", "unspawned"}

\* The reset (XSHUT) lines and the ready (GPIO1) lines of the board.
Pins == {1, 2}
\* The values device.all() of the MPU9250 returns (MargMeasurements), and the
\* one init_new puts in last_data (all fields 0.0).
MargMeasurements == {[marg |-> 31], [marg |-> 32]}
MpuDefaultData == [marg |-> 0]
\* The callbacks a caller may pass to start_continuous_measurement.
Callbacks == {"cb1", "cb2"}

\* The value of `got` after a step that is no call of get_latest_measurement.
NoCall == [sensor |-> "none", value |-> 0]
\* Default bus address of a VL53L0X after reset, and the one init_new gives it.
DefaultAddr == 41
NewAddr == 48

VARIABLES
    locked,         \* the Mutex around the I2c: TRUE while a guard is live
    guards,         \* the owners of the live MutexGuards
    l1_pc,          \* VL53L1X task: position in distance_sensor_task
    recovery_mode,  \* VL53L1XSensor.recovery_mode
    last_data,      \* VL53L1XSensor.last_data
    l1_recFrom,     \* call site of the latest recover_sensor: "read" / "rearm"
    l1_lastOp,      \* history: the latest device operation and its outcome
    l1_rmd,         \* history: the value the latest successful read returned
    l1_reads,       \* history: the values of the successful Valid reads
    l1_cb,          \* history: the values passed to the callback
    l1_fails,       \* history: failed probes since Recovering was entered
    l1_delays,      \* history: 10 ms suspensions since Recovering was entered
    l0_pc,          \* VL53L0X task: position in distance_sensor_task
    l0_last_data,   \* VL53L0XSensor.last_data
    l0_lastOp,      \* history: the outcome of the latest read_range_mm
    fi_pc,          \* init_i2c_devices: position, inside init_new included
    xshuts,         \* init_i2c_devices: the reset lines not yet handed out
    interrupts,     \* init_i2c_devices: the ready lines not yet handed out
    xshut_level,    \* the level each reset line is driven to
    cfg_xshut,      \* Config.xshut_pin of the sensor being constructed (a set)
    cfg_gpio,       \* Config.gpio_interrupt of that sensor (a set)
    l0_addr,        \* the bus address the VL53L0X answers at
    cfg1_xshut,     \* Config.xshut_pin of sensor 1, the VL53L1X (a set)
    cfg1_gpio,      \* Config.gpio_interrupt of sensor 1 (a set)
    built,          \* the sensors init_new has returned Ok(Self) for
    in_xshuts,      \* history: the reset lines init_i2c_devices was called with
    in_interrupts,  \* history: the ready lines it was called with
    fi_log,         \* history: the steps of init_i2c_devices, in order
    got,            \* history: what get_latest_measurement returned, if the
                    \* latest step was a call of it
    mpu_pc,         \* MPU9250: position of the sensor and of data_fetch_task
    on_new_data,    \* Mpu9250Sensor.on_new_data (a set: empty for None)
    mpu_last_data,  \* Mpu9250Sensor.last_data
    mpu_lastOp,     \* history: the outcome of the latest device.all()
    mpu_reads,      \* history: the values of the successful reads
    mpu_cb          \* history: the values passed to the callback

vars == <<locked, guards, l1_pc, recovery_mode, last_data, l1_recFrom,
          l1_lastOp, l1_rmd, l1_reads, l1_cb, l1_fails, l1_delays,
          l0_pc, l0_last_data, l0_lastOp,
          fi_pc, xshuts, interrupts, xshut_level, cfg_xshut, cfg_gpio, l0_addr,
          cfg1_xshut, cfg1_gpio, built, in_xshuts, in_interrupts, fi_log, got,
          mpu_pc, on_new_data, mpu_last_data, mpu_lastOp, mpu_reads, mpu_cb>>

busVars == <<locked, guards>>
l1Vars == <<l1_pc, recovery_mode, last_data, l1_recFrom, l1_lastOp, l1_rmd,
            l1_reads, l1_cb, l1_fails, l1_delays>>
l0Vars == <<l0_pc, l0_last_data, l0_lastOp>>
fiVars == <<fi_pc, xshuts, interrupts, xshut_level, cfg_xshut, cfg_gpio, l0_addr,
            cfg1_xshut, cfg1_gpio, built, in_xshuts, in_interrupts, fi_log>>
mpuVars == <<mpu_pc, on_new_data, mpu_last_data, mpu_lastOp, mpu_reads, mpu_cb>>

\* ------------------------------------------------------------- the mutex
Holds(t) == t \in guards

\* Mutant: a lock that is granted whatever the state of the mutex.
MutexFree_always == TRUE

\* Mutex::lock().await completes only while no guard is live.
MutexFree == ~locked

Acquire(t) ==
    /\ MutexFree
    /\ locked' = TRUE
    /\ guards' = guards \cup {t}

\* Drop of the MutexGuard.
Release(t) ==
    /\ locked' = FALSE
    /\ guards' = guards \ {t}

Inc(n) == IF n < MaxCount THEN n + 1 ELSE n
Log(s, v) == IF Len(s) < MaxLog THEN Append(s, v) ELSE s

\* -------------------------------------------------------------- MPU9250
\* Mpu9250Sensor::init_new has returned Ok(Self { .., on_new_data: None }).
MpuBuilt ==
    /\ mpu_pc = "built"
    /\ on_new_data = {}
    /\ mpu_last_data = MpuDefaultData
    /\ mpu_lastOp = "none"
    /\ mpu_reads = <<>>
    /\ mpu_cb = <<>>

\* Mutant: start_continuous_measurement spawns the task without storing the
\* callback.
MPU_start_continuous_measurement_nocb ==
    /\ mpu_pc = "built"
    /\ \E ok \in BOOLEAN :
        mpu_pc' = IF ok THEN "wait_edge" ELSE "start_err"
    /\ UNCHANGED <<on_new_data, mpu_last_data, mpu_lastOp, mpu_reads, mpu_cb>>
    /\ UNCHANGED <<busVars, l1Vars, l0Vars, fiVars>>
    /\ got' = NoCall

\* Mpu9250Sensor::start_continuous_measurement:
\* `self.on_new_data = Some(callable); spawner.spawn(data_fetch_task(self))`.
MPU_start_continuous_measurement ==
    /\ mpu_pc = "built"
    /\ \E callable \in Callbacks, ok \in BOOLEAN :
        /\ on_new_data' = {callable}
        /\ mpu_pc' = IF ok THEN "wait_edge" ELSE "start_err"
    /\ UNCHANGED <<mpu_last_data, mpu_lastOp, mpu_reads, mpu_cb>>
    /\ UNCHANGED <<busVars, l1Vars, l0Vars, fiVars>>
    /\ got' = NoCall

\* data_fetch_task: self_.gpio_interrupt.wait_for_falling_edge().await.
MPU_wait_for_falling_edge ==
    /\ mpu_pc = "wait_edge"
    /\ mpu_pc' = "all"
    /\ UNCHANGED <<on_new_data, mpu_last_data, mpu_lastOp, mpu_reads, mpu_cb>>
    /\ UNCHANGED <<busVars, l1Vars, l0Vars, fiVars>>
    /\ got' = NoCall

\* Mutant: a failed read falls through to the callback.
AfterAll_fallthrough(ok) == "notify"

\* `match self_.device.all()`: Ok goes on to the callback, Err to `continue`.
AfterAll(ok) == IF ok THEN "notify" ELSE "wait_edge"

\* data_fetch_task: self_.device.all() and the match on its result.
MPU_all ==
    /\ mpu_pc = "all"
    /\ \E ok \in BOOLEAN, data \in MargMeasurements :
        /\ mpu_lastOp' = IF ok THEN "Ok" ELSE "Err"
        /\ mpu_last_data' = IF ok THEN data ELSE mpu_last_data
        /\ mpu_reads' = IF ok THEN Log(mpu_reads, data) ELSE mpu_reads
        /\ mpu_pc' = AfterAll(ok)
    /\ UNCHANGED <<on_new_data, mpu_cb>>
    /\ UNCHANGED <<busVars, l1Vars, l0Vars, fiVars>>
    /\ got' = NoCall

\* data_fetch_task: `self_.on_new_data.unwrap()(&self_.last_data)`; the
\* unwrap of None panics.
MPU_on_new_data ==
    /\ mpu_pc = "notify"
    /\ IF on_new_data = {}
       THEN /\ mpu_pc' = "panicked"
            /\ mpu_cb' = mpu_cb
       ELSE /\ mpu_pc' = "wait_edge"
            /\ mpu_cb' = Log(mpu_cb, mpu_last_data)
    /\ UNCHANGED <<on_new_data, mpu_last_data, mpu_lastOp, mpu_reads>>
    /\ UNCHANGED <<busVars, l1Vars, l0Vars, fiVars>>
    /\ got' = NoCall

\* ----------------------------------------------------- VL53L1X: the task
\* Mutant: the loop waits for the edge whatever recovery_mode is.
LoopTop_edge(rm) == "wait_edge"

\* Top of the loop: `if !self_.recovery_mode { wait edge } else { poll }`.
LoopTop(rm) == IF rm THEN "probe" ELSE "wait_edge"

\* The duration of the Timer::after a position is suspended in.
L1TimerMs(pc) ==
    IF pc = "probe_delay" THEN ProbeRetryMs
    ELSE IF pc = "rec_delay" THEN RecoverDelayMs
    ELSE RecoverFailedMs

\* The duration of the timer the task is suspended in, 0 when in none.
L1Timer == IF l1_pc \in L1TimerPcs THEN L1TimerMs(l1_pc) ELSE 0

\* self_.gpio_interrupt.wait_for_falling_edge().await completes.
L1X_wait_for_falling_edge ==
    /\ l1_pc = "wait_edge"
    /\ l1_pc' = "read"
    /\ UNCHANGED <<recovery_mode, last_data, l1_recFrom, l1_lastOp, l1_rmd,
                   l1_reads, l1_cb, l1_fails, l1_delays>>
    /\ UNCHANGED busVars
    /\ UNCHANGED l0Vars
    /\ UNCHANGED fiVars
    /\ got' = NoCall
    /\ UNCHANGED mpuVars

\* self_.i2c.lock().await of the bus operation the task is about to do.
L1X_lock ==
    /\ l1_pc \in L1BusPcs
    /\ ~Holds("l1x")
    /\ Acquire("l1x")
    /\ UNCHANGED l1Vars
    /\ UNCHANGED l0Vars
    /\ UNCHANGED fiVars
    /\ got' = NoCall
    /\ UNCHANGED mpuVars

\* Mutant: a failed probe is retried at once, without the 10 ms suspension.
AfterProbe_nodelay(ok, rm) ==
    IF ok THEN [pc |-> "read", rm |-> FALSE]
    ELSE [pc |-> "probe", rm |-> rm]

\* Mutant: a failed probe escalates to the stop/start recovery.
AfterProbe_escalate(ok, rm) ==
    IF ok THEN [pc |-> "read", rm |-> FALSE]
    ELSE [pc |-> "rec_stop", rm |-> rm]

\* The `while let Err(e) = { wait_measurement_data_ready(..) }`: on Err the
\* body awaits Timer::after(10 ms) and the probe is repeated; on Ok the loop
\* is left, recovery_mode is cleared and the read follows.
AfterProbe(ok, rm) ==
    IF ok THEN [pc |-> "read", rm |-> FALSE]
    ELSE [pc |-> "probe_delay", rm |-> rm]

\* wait_measurement_data_ready in the `while let Err(e)` of the polling path.
L1X_wait_measurement_data_ready ==
    /\ l1_pc = "probe"
    /\ Holds("l1x")
    /\ \E ok \in BOOLEAN :
        /\ l1_lastOp' = [op |-> "probe", ok |-> ok]
        /\ l1_pc' = AfterProbe(ok, recovery_mode).pc
        /\ recovery_mode' = AfterProbe(ok, recovery_mode).rm
        /\ l1_fails' = IF ok THEN l1_fails ELSE Inc(l1_fails)
    /\ Release("l1x")
    /\ UNCHANGED <<last_data, l1_recFrom, l1_rmd, l1_reads, l1_cb, l1_delays>>
    /\ UNCHANGED l0Vars
    /\ UNCHANGED fiVars
    /\ got' = NoCall
    /\ UNCHANGED mpuVars

\* A Timer::after(..).await of the task completes.
L1X_timer ==
    /\ l1_pc \in L1TimerPcs
    /\ IF l1_pc = "probe_delay"
       THEN /\ l1_pc' = "probe"
            /\ l1_delays' = Inc(l1_delays)
            /\ UNCHANGED <<recovery_mode, l1_fails>>
       ELSE IF l1_pc = "rec_delay"
       THEN /\ l1_pc' = "rec_start"
            /\ UNCHANGED <<recovery_mode, l1_fails, l1_delays>>
       ELSE \* the 500 ms after a failed recover_sensor
            /\ recovery_mode' = IF l1_recFrom = "rearm" THEN TRUE ELSE recovery_mode
            /\ l1_pc' = LoopTop(recovery_mode')
            /\ l1_fails' = IF l1_recFrom = "rearm" THEN 0 ELSE l1_fails
            /\ l1_delays' = IF l1_recFrom = "rearm" THEN 0 ELSE l1_delays
    /\ UNCHANGED <<last_data, l1_recFrom, l1_lastOp, l1_rmd, l1_reads, l1_cb>>
    /\ UNCHANGED busVars
    /\ UNCHANGED l0Vars
    /\ UNCHANGED fiVars
    /\ got' = NoCall
    /\ UNCHANGED mpuVars

\* Mutant: every successful read is recorded, SIGNAL_FAIL included.
RecordRead_always(rmd, old) == rmd

\* Mutant: the assignment of last_data is missing.
RecordRead_never(rmd, old) == old

\* The outcome of `match { get_ranging_measurement_data(..) }` on Ok(rmd).
RecordRead(rmd, old) == IF rmd.status # "SignalFail" THEN rmd ELSE old

\* Mutant: a read whose status is not Valid is handled as a failed read.
L1X_get_ranging_measurement_data_strict ==
    /\ l1_pc = "read"
    /\ Holds("l1x")
    /\ \E ok \in BOOLEAN, rmd \in RangingMeasurementData :
        /\ l1_lastOp' = [op |-> "read", ok |-> ok]
        /\ l1_rmd' = IF ok THEN rmd ELSE l1_rmd
        /\ IF ok /\ rmd.status = "Valid"
           THEN /\ last_data' = rmd
                /\ l1_reads' = Log(l1_reads, rmd.range)
                /\ l1_pc' = "rearm"
                /\ l1_recFrom' = l1_recFrom
           ELSE /\ last_data' = last_data
                /\ l1_reads' = l1_reads
                /\ l1_pc' = "rec_stop"
                /\ l1_recFrom' = "read"
    /\ Release("l1x")
    /\ UNCHANGED <<recovery_mode, l1_cb, l1_fails, l1_delays>>
    /\ UNCHANGED l0Vars
    /\ UNCHANGED fiVars
    /\ got' = NoCall
    /\ UNCHANGED mpuVars

\* get_ranging_measurement_data and the match on its result.
L1X_get_ranging_measurement_data ==
    /\ l1_pc = "read"
    /\ Holds("l1x")
    /\ \E ok \in BOOLEAN, rmd \in RangingMeasurementData :
        /\ l1_lastOp' = [op |-> "read", ok |-> ok]
        /\ IF ok
           THEN /\ last_data' = RecordRead(rmd, last_data)
                /\ l1_rmd' = rmd
                /\ l1_reads' = IF rmd.status = "Valid"
                               THEN Log(l1_reads, rmd.range) ELSE l1_reads
                /\ l1_pc' = "rearm"
                /\ l1_recFrom' = l1_recFrom
           ELSE /\ last_data' = last_data
                /\ l1_rmd' = l1_rmd
                /\ l1_reads' = l1_reads
                /\ l1_pc' = "rec_stop"
                /\ l1_recFrom' = "read"
    /\ Release("l1x")
    /\ UNCHANGED <<recovery_mode, l1_cb, l1_fails, l1_delays>>
    /\ UNCHANGED l0Vars
    /\ UNCHANGED fiVars
    /\ got' = NoCall
    /\ UNCHANGED mpuVars

\* clear_interrupt_and_start_measurement and the `if let Err(e)` on it.
L1X_clear_interrupt_and_start_measurement ==
    /\ l1_pc = "rearm"
    /\ Holds("l1x")
    /\ \E ok \in BOOLEAN :
        /\ l1_lastOp' = [op |-> "rearm", ok |-> ok]
        /\ IF ok
           THEN /\ l1_pc' = LoopTop(recovery_mode)
                /\ l1_recFrom' = l1_recFrom
           ELSE /\ l1_pc' = "rec_stop"
                /\ l1_recFrom' = "rearm"
    /\ Release("l1x")
    /\ UNCHANGED <<recovery_mode, last_data, l1_rmd, l1_reads, l1_cb,
                   l1_fails, l1_delays>>
    /\ UNCHANGED l0Vars
    /\ UNCHANGED fiVars
    /\ got' = NoCall
    /\ UNCHANGED mpuVars

\* Mutant: recover_sensor without its Timer::after(100 ms).
L1X_stop_measurement_nodelay ==
    /\ l1_pc = "rec_stop"
    /\ Holds("l1x")
    /\ \E ok \in BOOLEAN :
        l1_lastOp' = [op |-> "stop", ok |-> ok]
    /\ l1_pc' = "rec_start"
    /\ Release("l1x")
    /\ UNCHANGED <<recovery_mode, last_data, l1_recFrom, l1_rmd, l1_reads, l1_cb,
                   l1_fails, l1_delays>>
    /\ UNCHANGED l0Vars
    /\ UNCHANGED fiVars
    /\ got' = NoCall
    /\ UNCHANGED mpuVars

\* Mutant: `{ stop_measurement(..) }?`, a failed stop ends recover_sensor
\* with the error.
L1X_stop_measurement_checked ==
    /\ l1_pc = "rec_stop"
    /\ Holds("l1x")
    /\ \E ok \in BOOLEAN :
        /\ l1_lastOp' = [op |-> "stop", ok |-> ok]
        /\ l1_pc' = IF ok THEN "rec_delay" ELSE "backoff"
    /\ Release("l1x")
    /\ UNCHANGED <<recovery_mode, last_data, l1_recFrom, l1_rmd, l1_reads, l1_cb,
                   l1_fails, l1_delays>>
    /\ UNCHANGED l0Vars
    /\ UNCHANGED fiVars
    /\ got' = NoCall
    /\ UNCHANGED mpuVars

\* recover_sensor: `let _ = { stop_measurement(..) };`
L1X_stop_measurement ==
    /\ l1_pc = "rec_stop"
    /\ Holds("l1x")
    /\ \E ok \in BOOLEAN :
        l1_lastOp' = [op |-> "stop", ok |-> ok]
    /\ l1_pc' = "rec_delay"
    /\ Release("l1x")
    /\ UNCHANGED <<recovery_mode, last_data, l1_recFrom, l1_rmd, l1_reads, l1_cb,
                   l1_fails, l1_delays>>
    /\ UNCHANGED l0Vars
    /\ UNCHANGED fiVars
    /\ got' = NoCall
    /\ UNCHANGED mpuVars

\* Mutant: the task returns when the recovery fails.
AfterRecover_giveup(from, ok, rm) ==
    IF ok THEN [pc |-> LoopTop(rm), rm |-> rm]
    ELSE [pc |-> "terminated", rm |-> rm]

\* Mutant: recovery_mode is set as soon as a recovery was attempted.
AfterRecover_poll(from, ok, rm) ==
    IF ok THEN [pc |-> LoopTop(TRUE), rm |-> TRUE]
    ELSE [pc |-> "backoff", rm |-> TRUE]

\* Mutant: the `continue` after a recovered read failure is missing, so the
\* task falls through to the rearm.
AfterRecover_fallthrough(from, ok, rm) ==
    IF ok THEN [pc |-> IF from = "read" THEN "rearm" ELSE LoopTop(rm), rm |-> rm]
    ELSE IF from = "read" THEN [pc |-> "backoff", rm |-> TRUE]
    ELSE [pc |-> "backoff", rm |-> rm]

\* Mutant: a failed recovery goes on to the polling path without the 500 ms.
AfterRecover_nobackoff(from, ok, rm) ==
    IF ok THEN [pc |-> LoopTop(rm), rm |-> rm]
    ELSE [pc |-> "probe", rm |-> TRUE]

\* What the caller of recover_sensor does with its result: the position it
\* goes to and the recovery_mode it leaves.
AfterRecover(from, ok, rm) ==
    IF ok THEN [pc |-> LoopTop(rm), rm |-> rm]
    ELSE IF from = "read" THEN [pc |-> "backoff", rm |-> TRUE]
    ELSE [pc |-> "backoff", rm |-> rm]

\* recover_sensor: `{ start_measurement(..) }?`, and the caller's
\* `if self_.recover_sensor().await.is_err()`.
L1X_start_measurement ==
    /\ l1_pc = "rec_start"
    /\ Holds("l1x")
    /\ \E ok \in BOOLEAN :
        /\ l1_lastOp' = [op |-> "start", ok |-> ok]
        /\ l1_pc' = AfterRecover(l1_recFrom, ok, recovery_mode).pc
        /\ recovery_mode' = AfterRecover(l1_recFrom, ok, recovery_mode).rm
    /\ l1_fails' = IF recovery_mode' /\ ~recovery_mode THEN 0 ELSE l1_fails
    /\ l1_delays' = IF recovery_mode' /\ ~recovery_mode THEN 0 ELSE l1_delays
    /\ Release("l1x")
    /\ UNCHANGED <<last_data, l1_recFrom, l1_rmd, l1_reads, l1_cb>>
    /\ UNCHANGED l0Vars
    /\ UNCHANGED fiVars
    /\ got' = NoCall
    /\ UNCHANGED mpuVars

L1X_task ==
    \/ L1X_wait_for_falling_edge
    \/ L1X_lock
    \/ L1X_wait_measurement_data_ready
    \/ L1X_timer
    \/ L1X_get_ranging_measurement_data
    \/ L1X_clear_interrupt_and_start_measurement
    \/ L1X_stop_measurement
    \/ L1X_start_measurement

\* ----------------------------------------------------- VL53L0X: the task
L0X_wait_for_falling_edge ==
    /\ l0_pc = "wait_edge"
    /\ l0_pc' = "read"
    /\ UNCHANGED <<l0_last_data, l0_lastOp>>
    /\ UNCHANGED busVars
    /\ UNCHANGED l1Vars
    /\ UNCHANGED fiVars
    /\ got' = NoCall
    /\ UNCHANGED mpuVars

\* I2cWrapper: `let mut i2c = self.i2c.lock().await;` inside block_on.
L0X_lock ==
    /\ l0_pc = "read"
    /\ ~Holds("l0x")
    /\ Acquire("l0x")
    /\ UNCHANGED l0Vars
    /\ UNCHANGED l1Vars
    /\ UNCHANGED fiVars
    /\ got' = NoCall
    /\ UNCHANGED mpuVars

\* Mutant: a failed read is repeated at once, without waiting for an edge.
L0X_read_range_mm_retry ==
    /\ l0_pc = "read"
    /\ Holds("l0x")
    /\ \E res \in {"Ok", "WouldBlock", "Other"}, distance \in Distances :
        /\ l0_lastOp' = res
        /\ l0_last_data' = IF res = "Ok" THEN distance ELSE l0_last_data
        /\ l0_pc' = IF res = "Ok" THEN "wait_edge" ELSE "read"
    /\ Release("l0x")
    /\ UNCHANGED l1Vars
    /\ UNCHANGED fiVars
    /\ got' = NoCall
    /\ UNCHANGED mpuVars

\* self_.device.read_range_mm() and the match on its result.
L0X_read_range_mm ==
    /\ l0_pc = "read"
    /\ Holds("l0x")
    /\ \E res \in {"Ok", "WouldBlock", "Other"}, distance \in Distances :
        /\ l0_lastOp' = res
        /\ l0_last_data' = IF res = "Ok" THEN distance ELSE l0_last_data
    /\ l0_pc' = "wait_edge"
    /\ Release("l0x")
    /\ UNCHANGED l1Vars
    /\ UNCHANGED fiVars
    /\ got' = NoCall
    /\ UNCHANGED mpuVars

L0X_task ==
    \/ L0X_wait_for_falling_edge
    \/ L0X_lock
    \/ L0X_read_range_mm

\* ------------------------------------------------------ the running tasks
\* Both sensors constructed by init_new and both tasks spawned.
Init ==
    /\ locked = FALSE
    /\ guards = {}
    /\ l1_pc = "wait_edge"
    /\ recovery_mode = FALSE
    /\ last_data = DefaultData
    /\ l1_recFrom = "none"
    /\ l1_lastOp = [op |-> "start", ok |-> TRUE]
    /\ l1_rmd = DefaultData
    /\ l1_reads = <<>>
    /\ l1_cb = <<>>
    /\ l1_fails = 0
    /\ l1_delays = 0
    /\ l0_pc = "wait_edge"
    /\ l0_last_data = 0
    /\ l0_lastOp = "none"
    /\ fi_pc = "done"
    /\ xshuts = <<>>
    /\ interrupts = <<>>
    /\ xshut_level = [p \in Pins |-> "high"]
    /\ cfg_xshut = {}
    /\ cfg_gpio = {}
    /\ l0_addr = NewAddr
    /\ cfg1_xshut = {}
    /\ cfg1_gpio = {}
    /\ built = {"l0x", "l1x"}
    \* the histories of the initializer are not kept once the tasks run
    /\ in_xshuts = <<>>
    /\ in_interrupts = <<>>
    /\ fi_log = <<>>
    /\ got = NoCall
    /\ MpuBuilt

Next ==
    \/ L1X_wait_for_falling_edge
    \/ L1X_lock
    \/ L1X_wait_measurement_data_ready
    \/ L1X_timer
    \/ L1X_get_ranging_measurement_data
    \/ L1X_clear_interrupt_and_start_measurement
    \/ L1X_stop_measurement
    \/ L1X_start_measurement
    \/ L0X_wait_for_falling_edge
    \/ L0X_lock
    \/ L0X_read_range_mm

Spec == Init /\ [][Next]_vars

\* The steps of the VL53L1X task that wait for nothing but the executor: a
\* ready task is polled and an armed timer fires.
L1X_progress ==
    \/ L1X_wait_measurement_data_ready
    \/ L1X_timer
    \/ L1X_get_ranging_measurement_data
    \/ L1X_clear_interrupt_and_start_measurement
    \/ L1X_stop_measurement
    \/ L1X_start_measurement

\* The running tasks under the scheduling of the executor: each task that can
\* run does run, and a task that asks for the mutex again and again gets it.
\* The ready-signal edges and the outcomes of the device operations stay the
\* environment's choice.
FairSpec ==
    /\ Spec
    /\ WF_vars(L1X_progress)
    /\ SF_vars(L1X_lock)
    /\ WF_vars(L0X_read_range_mm)
    /\ SF_vars(L0X_lock)

\* FairSpec with a device that raises the ready edge the task waits for.
LiveSpec ==
    /\ FairSpec
    /\ WF_vars(L1X_wait_for_falling_edge)

\* ------------------------------------------------------ the MPU9250 alone
NextMpu ==
    \/ MPU_start_continuous_measurement
    \/ MPU_wait_for_falling_edge
    \/ MPU_all
    \/ MPU_on_new_data

\* The MPU9250 sensor from its construction on; it is on the SPI bus and
\* shares nothing with the distance sensors.
SpecMpu == Init /\ [][NextMpu]_vars

\* ------------------------------------------------ get_latest_measurement
\* Mutant: the getter hands out the value the latest read returned, recorded
\* or not.
L1X_latest_read == l1_rmd

\* VL53L1XSensor::get_latest_measurement: `Ok(&self.last_data)`.
L1X_latest == last_data

\* VL53L0XSensor::get_latest_measurement: `Ok(&self.last_data)`.
L0X_latest == l0_last_data

\* A call of get_latest_measurement of the VL53L1X from outside its task:
\* synchronous, so the call and its return are one step.
L1X_get_latest_measurement ==
    /\ "l1x" \in built
    /\ got' = [sensor |-> "l1x", value |-> L1X_latest]
    /\ UNCHANGED busVars
    /\ UNCHANGED l1Vars
    /\ UNCHANGED l0Vars
    /\ UNCHANGED fiVars
    /\ UNCHANGED mpuVars

\* A call of get_latest_measurement of the VL53L0X.
L0X_get_latest_measurement ==
    /\ "l0x" \in built
    /\ got' = [sensor |-> "l0x", value |-> L0X_latest]
    /\ UNCHANGED busVars
    /\ UNCHANGED l1Vars
    /\ UNCHANGED l0Vars
    /\ UNCHANGED fiVars
    /\ UNCHANGED mpuVars

NextAccess ==
    \/ Next
    \/ L1X_get_latest_measurement
    \/ L0X_get_latest_measurement

\* The running tasks, and a caller that reads the latest measurements.
SpecAccess == Init /\ [][NextAccess]_vars

\* ------------------------------------------------- the fleet initializer
\* The bus handed to init_new is the Mutex its signature takes
\* (`i2c: &'a mut Mutex<..>`).
\* Positions of init_i2c_devices, those inside VL53L0XSensor::init_new
\* included: "start", "l0_entry", "l0_delay1", "l0_lock", "l0_boot",
\* "l0_delay2", "l0_addr", "l0_with_address", "l0_who_am_i", "l0_err",
\* "done", and "panicked" for core::panic! and the panic of Vec::remove.
\* For sensor 1: "config1", "l1_entry", "l1_delay1", "l1_boot", "l1_delay2",
\* the names of the bring-up steps, "l1_err"; for the starts: "start0",
\* "spawn0", "start0_err", "spawn1", "start1_err".
\* The two positions suspended in Timer::after(10 ms):
FiTimerPcs == {"l0_delay1", "l0_delay2"}

\* Mutant: the first element is read and left in the Vec.
RemoveFirst_peek(v) == [ok |-> Len(v) > 0,
                        item |-> IF Len(v) > 0 THEN {Head(v)} ELSE {},
                        rest |-> v]

\* Vec::remove(0): the first element and the rest; it panics on an empty Vec.
RemoveFirst(v) == [ok |-> Len(v) > 0,
                   item |-> IF Len(v) > 0 THEN {Head(v)} ELSE {},
                   rest |-> IF Len(v) > 0 THEN Tail(v) ELSE v]

\* An entry of fi_log: sensor s ("l0x", "l1x") did step e, with outcome ok.
Ev(s, e, ok) == [s |-> s, e |-> e, ok |-> ok]

\* init_i2c_devices: the Config of sensor 0 is built from xshuts.remove(0) and
\* interrupts.remove(0), in this order, and VL53L0XSensor::init_new is called.
FI_config0 ==
    /\ fi_pc = "start"
    /\ LET x == RemoveFirst(xshuts)
           g == RemoveFirst(interrupts)
       IN /\ xshuts' = x.rest
          /\ cfg_xshut' = x.item
          /\ interrupts' = IF x.ok THEN g.rest ELSE interrupts
          /\ cfg_gpio' = IF x.ok THEN g.item ELSE {}
          /\ fi_pc' = IF x.ok /\ g.ok THEN "l0_entry" ELSE "panicked"
    /\ UNCHANGED <<xshut_level, l0_addr>>
    /\ UNCHANGED busVars
    /\ UNCHANGED l1Vars
    /\ UNCHANGED l0Vars
    /\ UNCHANGED <<cfg1_xshut, cfg1_gpio, built, in_xshuts, in_interrupts>>
    /\ got' = NoCall
    /\ UNCHANGED mpuVars
    /\ UNCHANGED fi_log

\* VL53L0XSensor::init_new: config.xshut_pin.set_low(), then the first
\* Timer::after(10 ms) is awaited.
L0X_init_set_low ==
    /\ fi_pc = "l0_entry"
    /\ xshut_level' = [p \in Pins |-> IF p \in cfg_xshut THEN "low" ELSE xshut_level[p]]
    /\ fi_pc' = "l0_delay1"
    /\ UNCHANGED <<xshuts, interrupts, cfg_xshut, cfg_gpio, l0_addr>>
    /\ UNCHANGED busVars
    /\ UNCHANGED l1Vars
    /\ UNCHANGED l0Vars
    /\ UNCHANGED <<cfg1_xshut, cfg1_gpio, built, in_xshuts, in_interrupts>>
    /\ got' = NoCall
    /\ UNCHANGED mpuVars
    /\ fi_log' = Append(fi_log, Ev("l0x", "set_low", TRUE))

\* A Timer::after(10 ms).await of init_new completes.
L0X_init_timer ==
    /\ fi_pc \in FiTimerPcs
    /\ fi_pc' = IF fi_pc = "l0_delay1" THEN "l0_lock" ELSE "l0_addr"
    /\ UNCHANGED <<xshuts, interrupts, xshut_level, cfg_xshut, cfg_gpio, l0_addr>>
    /\ UNCHANGED busVars
    /\ UNCHANGED l1Vars
    /\ UNCHANGED l0Vars
    /\ UNCHANGED <<cfg1_xshut, cfg1_gpio, built, in_xshuts, in_interrupts>>
    /\ got' = NoCall
    /\ UNCHANGED mpuVars
    /\ fi_log' = Append(fi_log, Ev("l0x", "delay10", TRUE))

\* `let mut i2c_guard = i2c.lock().await;`  The guard lives to the end of the
\* block that yields `device`.
L0X_init_lock ==
    /\ fi_pc = "l0_lock"
    /\ Acquire("init")
    /\ fi_pc' = "l0_boot"
    /\ UNCHANGED <<xshuts, interrupts, xshut_level, cfg_xshut, cfg_gpio, l0_addr>>
    /\ UNCHANGED l1Vars
    /\ UNCHANGED l0Vars
    /\ UNCHANGED <<cfg1_xshut, cfg1_gpio, built, in_xshuts, in_interrupts>>
    /\ got' = NoCall
    /\ UNCHANGED mpuVars
    /\ fi_log' = Append(fi_log, Ev("l0x", "lock", TRUE))

\* config.xshut_pin.set_high(), then the second Timer::after(10 ms) is
\* awaited, i2c_guard still live.
L0X_init_set_high ==
    /\ fi_pc = "l0_boot"
    /\ xshut_level' = [p \in Pins |-> IF p \in cfg_xshut THEN "high" ELSE xshut_level[p]]
    /\ fi_pc' = "l0_delay2"
    /\ UNCHANGED <<xshuts, interrupts, cfg_xshut, cfg_gpio, l0_addr>>
    /\ UNCHANGED busVars
    /\ UNCHANGED l1Vars
    /\ UNCHANGED l0Vars
    /\ UNCHANGED <<cfg1_xshut, cfg1_gpio, built, in_xshuts, in_interrupts>>
    /\ got' = NoCall
    /\ UNCHANGED mpuVars
    /\ fi_log' = Append(fi_log, Ev("l0x", "set_high", TRUE))

\* `i2c_guard.blocking_write(0x29, &[0x8A, 0x60])?`: on Err the guard is
\* dropped and init_new returns the error.
L0X_init_change_address ==
    /\ fi_pc = "l0_addr"
    /\ Holds("init")
    /\ \E ok \in BOOLEAN :
        /\ fi_log' = Append(fi_log, Ev("l0x", "blocking_write", ok))
        /\ IF ok
           THEN /\ l0_addr' = NewAddr
                /\ fi_pc' = "l0_with_address"
                /\ UNCHANGED busVars
           ELSE /\ l0_addr' = l0_addr
                /\ fi_pc' = "l0_err"
                /\ Release("init")
    /\ UNCHANGED <<xshuts, interrupts, xshut_level, cfg_xshut, cfg_gpio>>
    /\ UNCHANGED l1Vars
    /\ UNCHANGED l0Vars
    /\ UNCHANGED <<cfg1_xshut, cfg1_gpio, built, in_xshuts, in_interrupts>>
    /\ got' = NoCall
    /\ UNCHANGED mpuVars

\* `VL53L0x::with_address(I2cWrapper::new(i2c), 0x30)?`: the driver's first
\* transaction goes through I2cWrapper, whose block_on polls
\* self.i2c.lock() in a busy loop: a poll is granted only while the mutex is
\* free and changes nothing otherwise.
L0X_init_with_address ==
    /\ fi_pc = "l0_with_address"
    /\ IF MutexFree
       THEN /\ Acquire("l0x")
            /\ fi_pc' = "l0_who_am_i"
       ELSE /\ UNCHANGED busVars
            /\ fi_pc' = fi_pc
    /\ UNCHANGED <<xshuts, interrupts, xshut_level, cfg_xshut, cfg_gpio, l0_addr>>
    /\ UNCHANGED l1Vars
    /\ UNCHANGED l0Vars
    /\ UNCHANGED <<cfg1_xshut, cfg1_gpio, built, in_xshuts, in_interrupts>>
    /\ got' = NoCall
    /\ UNCHANGED mpuVars
    /\ UNCHANGED fi_log

\* init_i2c_devices: `Err(e) => { error!(..); core::panic!(..) }`.
FI_init0_failed ==
    /\ fi_pc = "l0_err"
    /\ fi_pc' = "panicked"
    /\ UNCHANGED <<xshuts, interrupts, xshut_level, cfg_xshut, cfg_gpio, l0_addr>>
    /\ UNCHANGED busVars
    /\ UNCHANGED l1Vars
    /\ UNCHANGED l0Vars
    /\ UNCHANGED <<cfg1_xshut, cfg1_gpio, built, in_xshuts, in_interrupts>>
    /\ got' = NoCall
    /\ UNCHANGED mpuVars
    /\ UNCHANGED fi_log

\* --------------------------------------- the fleet initializer: sensor 1
\* The bring-up steps of VL53L1XSensor::init_new, in the order of the code;
\* the position of init_new in front of a step is the name of the step.
L1BringUp == <<"data_init", "static_init", "set_preset_mode", "set_user_roi",
               "set_measurement_timing_budget_micro_seconds",
               "set_inter_measurement_period_milli_seconds",
               "start_measurement">>

\* The steps that go to the bus: they are passed `&mut *i2c.lock().await`.
\* The other ones work on the Device structure and can fail all the same.
L1BusSteps == {"data_init", "start_measurement"}
L1DeviceSteps == {L1BringUp[i] : i \in 2..6}

\* Mutant: init_new stops after set_user_roi and its caller goes on.
AfterStep_early(step) ==
    LET i == CHOOSE j \in DOMAIN L1BringUp : L1BringUp[j] = step
    IN IF i < 4 THEN L1BringUp[i + 1] ELSE "start0"

\* The position after a bring-up step that returned Ok.
AfterStep(step) ==
    LET i == CHOOSE j \in DOMAIN L1BringUp : L1BringUp[j] = step
    IN IF i < Len(L1BringUp) THEN L1BringUp[i + 1] ELSE "start0"

\* The two positions of VL53L1XSensor::init_new suspended in Timer::after(10 ms).
Fi1TimerPcs == {"l1_delay1", "l1_delay2"}

\* Mutant: sensor 0 is started as soon as it is built, before sensor 1 is
\* constructed.
FI_config1_started ==
    /\ fi_pc = "config1"
    /\ LET x == RemoveFirst(xshuts)
           g == RemoveFirst(interrupts)
       IN /\ xshuts' = x.rest
          /\ cfg1_xshut' = x.item
          /\ interrupts' = IF x.ok THEN g.rest ELSE interrupts
          /\ cfg1_gpio' = IF x.ok THEN g.item ELSE {}
          /\ fi_pc' = IF x.ok /\ g.ok THEN "l1_entry" ELSE "panicked"
    /\ l0_pc' = "wait_edge"
    /\ fi_log' = Append(fi_log, Ev("l0x", "spawn", TRUE))
    /\ UNCHANGED <<xshut_level, cfg_xshut, cfg_gpio, l0_addr, built,
                   in_xshuts, in_interrupts>>
    /\ UNCHANGED <<l0_last_data, l0_lastOp>>
    /\ UNCHANGED busVars
    /\ UNCHANGED l1Vars
    /\ got' = NoCall
    /\ UNCHANGED mpuVars

\* init_i2c_devices: the Config of sensor 1 is built from xshuts.remove(0) and
\* interrupts.remove(0), in this order, and VL53L1XSensor::init_new is called.
FI_config1 ==
    /\ fi_pc = "config1"
    /\ LET x == RemoveFirst(xshuts)
           g == RemoveFirst(interrupts)
       IN /\ xshuts' = x.rest
          /\ cfg1_xshut' = x.item
          /\ interrupts' = IF x.ok THEN g.rest ELSE interrupts
          /\ cfg1_gpio' = IF x.ok THEN g.item ELSE {}
          /\ fi_pc' = IF x.ok /\ g.ok THEN "l1_entry" ELSE "panicked"
    /\ UNCHANGED <<xshut_level, cfg_xshut, cfg_gpio, l0_addr, built,
                   in_xshuts, in_interrupts, fi_log>>
    /\ UNCHANGED busVars
    /\ UNCHANGED l1Vars
    /\ UNCHANGED l0Vars
    /\ got' = NoCall
    /\ UNCHANGED mpuVars

\* VL53L1XSensor::init_new: config.xshut_pin.set_low(), then the first
\* Timer::after(10 ms) is awaited.
L1X_init_set_low ==
    /\ fi_pc = "l1_entry"
    /\ xshut_level' = [p \in Pins |-> IF p \in cfg1_xshut THEN "low" ELSE xshut_level[p]]
    /\ fi_pc' = "l1_delay1"
    /\ fi_log' = Append(fi_log, Ev("l1x", "set_low", TRUE))
    /\ UNCHANGED <<xshuts, interrupts, cfg_xshut, cfg_gpio, l0_addr,
                   cfg1_xshut, cfg1_gpio, built, in_xshuts, in_interrupts>>
    /\ UNCHANGED busVars
    /\ UNCHANGED l1Vars
    /\ UNCHANGED l0Vars
    /\ got' = NoCall
    /\ UNCHANGED mpuVars

\* A Timer::after(10 ms).await of VL53L1XSensor::init_new completes.
L1X_init_timer ==
    /\ fi_pc \in Fi1TimerPcs
    /\ fi_pc' = IF fi_pc = "l1_delay1" THEN "l1_boot" ELSE L1BringUp[1]
    /\ fi_log' = Append(fi_log, Ev("l1x", "delay10", TRUE))
    /\ UNCHANGED <<xshuts, interrupts, xshut_level, cfg_xshut, cfg_gpio, l0_addr,
                   cfg1_xshut, cfg1_gpio, built, in_xshuts, in_interrupts>>
    /\ UNCHANGED busVars
    /\ UNCHANGED l1Vars
    /\ UNCHANGED l0Vars
    /\ got' = NoCall
    /\ UNCHANGED mpuVars

\* Mutant: VL53L1XSensor::init_new without its second Timer::after(10 ms).
L1X_init_set_high_nodelay ==
    /\ fi_pc = "l1_boot"
    /\ xshut_level' = [p \in Pins |-> IF p \in cfg1_xshut THEN "high" ELSE xshut_level[p]]
    /\ fi_pc' = L1BringUp[1]
    /\ fi_log' = Append(fi_log, Ev("l1x", "set_high", TRUE))
    /\ UNCHANGED <<xshuts, interrupts, cfg_xshut, cfg_gpio, l0_addr,
                   cfg1_xshut, cfg1_gpio, built, in_xshuts, in_interrupts>>
    /\ UNCHANGED busVars
    /\ UNCHANGED l1Vars
    /\ UNCHANGED l0Vars
    /\ got' = NoCall
    /\ UNCHANGED mpuVars

\* config.xshut_pin.set_high(), then the second Timer::after(10 ms).
L1X_init_set_high ==
    /\ fi_pc = "l1_boot"
    /\ xshut_level' = [p \in Pins |-> IF p \in cfg1_xshut THEN "high" ELSE xshut_level[p]]
    /\ fi_pc' = "l1_delay2"
    /\ fi_log' = Append(fi_log, Ev("l1x", "set_high", TRUE))
    /\ UNCHANGED <<xshuts, interrupts, cfg_xshut, cfg_gpio, l0_addr,
                   cfg1_xshut, cfg1_gpio, built, in_xshuts, in_interrupts>>
    /\ UNCHANGED busVars
    /\ UNCHANGED l1Vars
    /\ UNCHANGED l0Vars
    /\ got' = NoCall
    /\ UNCHANGED mpuVars

\* `i2c.lock().await` in the argument of data_init and of start_measurement.
L1X_init_lock ==
    /\ fi_pc \in L1BusSteps
    /\ ~Holds("init")
    /\ Acquire("init")
    /\ fi_log' = Append(fi_log, Ev("l1x", "lock", TRUE))
    /\ UNCHANGED <<fi_pc, xshuts, interrupts, xshut_level, cfg_xshut, cfg_gpio,
                   l0_addr, cfg1_xshut, cfg1_gpio, built, in_xshuts, in_interrupts>>
    /\ UNCHANGED l1Vars
    /\ UNCHANGED l0Vars
    /\ got' = NoCall
    /\ UNCHANGED mpuVars

\* Mutant: the `?` after a bring-up step is missing, its error is dropped.
StepResult_ignore(step, ok) == AfterStep(step)

\* `step(..)?`: on Err init_new returns the error, on Ok it goes on.
StepResult(step, ok) == IF ok THEN AfterStep(step) ELSE "l1_err"

\* `data_init(&mut device, &mut *i2c.lock().await)?;`  The guard is a
\* temporary of the statement: it is dropped at its end, and before the
\* return of the `?`.
L1X_init_data_init ==
    /\ fi_pc = "data_init"
    /\ Holds("init")
    /\ \E ok \in BOOLEAN :
        /\ fi_log' = Append(fi_log, Ev("l1x", fi_pc, ok))
        /\ fi_pc' = StepResult(fi_pc, ok)
    /\ Release("init")
    /\ UNCHANGED <<xshuts, interrupts, xshut_level, cfg_xshut, cfg_gpio, l0_addr,
                   cfg1_xshut, cfg1_gpio, built, in_xshuts, in_interrupts>>
    /\ UNCHANGED l1Vars
    /\ UNCHANGED l0Vars
    /\ got' = NoCall
    /\ UNCHANGED mpuVars

\* static_init, set_preset_mode, set_user_roi,
\* set_measurement_timing_budget_micro_seconds and
\* set_inter_measurement_period_milli_seconds, each followed by `?`.
L1X_init_configure ==
    /\ fi_pc \in L1DeviceSteps
    /\ \E ok \in BOOLEAN :
        /\ fi_log' = Append(fi_log, Ev("l1x", fi_pc, ok))
        /\ fi_pc' = StepResult(fi_pc, ok)
    /\ UNCHANGED <<xshuts, interrupts, xshut_level, cfg_xshut, cfg_gpio, l0_addr,
                   cfg1_xshut, cfg1_gpio, built, in_xshuts, in_interrupts>>
    /\ UNCHANGED busVars
    /\ UNCHANGED l1Vars
    /\ UNCHANGED l0Vars
    /\ got' = NoCall
    /\ UNCHANGED mpuVars

\* `start_measurement(&mut device, &mut *i2c.lock().await)?;` and, on Ok,
\* `Ok(Self { .., last_data: default(), recovery_mode: false })`, which
\* init_i2c_devices leaks into sensor1.
L1X_init_start_measurement ==
    /\ fi_pc = "start_measurement"
    /\ Holds("init")
    /\ \E ok \in BOOLEAN :
        /\ fi_log' = Append(fi_log, Ev("l1x", fi_pc, ok))
        /\ fi_pc' = StepResult(fi_pc, ok)
        /\ l1_lastOp' = [op |-> "start", ok |-> ok]
    /\ built' = IF fi_pc' = "l1_err" THEN built ELSE built \cup {"l1x"}
    /\ last_data' = DefaultData
    /\ recovery_mode' = FALSE
    /\ Release("init")
    /\ UNCHANGED <<xshuts, interrupts, xshut_level, cfg_xshut, cfg_gpio, l0_addr,
                   cfg1_xshut, cfg1_gpio, in_xshuts, in_interrupts>>
    /\ UNCHANGED <<l1_pc, l1_recFrom, l1_rmd, l1_reads, l1_cb, l1_fails, l1_delays>>
    /\ UNCHANGED l0Vars
    /\ got' = NoCall
    /\ UNCHANGED mpuVars

\* Mutant: a sensor that failed to initialize is skipped and the fleet
\* initializer goes on with the start of the other one.
FI_init1_failed_isolate ==
    /\ fi_pc = "l1_err"
    /\ fi_pc' = "start0"
    /\ UNCHANGED <<xshuts, interrupts, xshut_level, cfg_xshut, cfg_gpio, l0_addr,
                   cfg1_xshut, cfg1_gpio, built, in_xshuts, in_interrupts, fi_log>>
    /\ UNCHANGED busVars
    /\ UNCHANGED l1Vars
    /\ UNCHANGED l0Vars
    /\ got' = NoCall
    /\ UNCHANGED mpuVars

\* init_i2c_devices: `Err(e) => { error!(..); core::panic!(..) }` of sensor 1.
FI_init1_failed ==
    /\ fi_pc = "l1_err"
    /\ fi_pc' = "panicked"
    /\ UNCHANGED <<xshuts, interrupts, xshut_level, cfg_xshut, cfg_gpio, l0_addr,
                   cfg1_xshut, cfg1_gpio, built, in_xshuts, in_interrupts, fi_log>>
    /\ UNCHANGED busVars
    /\ UNCHANGED l1Vars
    /\ UNCHANGED l0Vars
    /\ got' = NoCall
    /\ UNCHANGED mpuVars

\* ------------------------------- the fleet initializer: the start of tasks
\* VL53L0XSensor::start_continuous_measurement: the lock of the I2cWrapper
\* the driver's start_continuous(0) writes through.
L0X_start_lock ==
    /\ fi_pc = "start0"
    /\ ~Holds("l0x")
    /\ Acquire("l0x")
    /\ fi_log' = Append(fi_log, Ev("l0x", "lock", TRUE))
    /\ UNCHANGED <<fi_pc, xshuts, interrupts, xshut_level, cfg_xshut, cfg_gpio,
                   l0_addr, cfg1_xshut, cfg1_gpio, built, in_xshuts, in_interrupts>>
    /\ UNCHANGED l1Vars
    /\ UNCHANGED l0Vars
    /\ got' = NoCall
    /\ UNCHANGED mpuVars

\* Mutant: the result of start_continuous(0) is dropped.
StartResult_ignore(ok) == "spawn0"

\* `self.device.start_continuous(0).map_err(StartError::I2cError)?`
StartResult(ok) == IF ok THEN "spawn0" ELSE "start0_err"

\* VL53L0XSensor::start_continuous_measurement: start_continuous(0).
L0X_start_continuous ==
    /\ fi_pc = "start0"
    /\ Holds("l0x")
    /\ \E ok \in BOOLEAN :
        /\ fi_log' = Append(fi_log, Ev("l0x", "start_continuous", ok))
        /\ fi_pc' = StartResult(ok)
    /\ Release("l0x")
    /\ UNCHANGED <<xshuts, interrupts, xshut_level, cfg_xshut, cfg_gpio, l0_addr,
                   cfg1_xshut, cfg1_gpio, built, in_xshuts, in_interrupts>>
    /\ UNCHANGED l1Vars
    /\ UNCHANGED l0Vars
    /\ got' = NoCall
    /\ UNCHANGED mpuVars

\* VL53L0XSensor::start_continuous_measurement:
\* `spawner.spawn(distance_sensor_task(self)).map_err(StartError::SpawnError)?`
L0X_spawn ==
    /\ fi_pc = "spawn0"
    /\ \E ok \in BOOLEAN :
        /\ fi_log' = Append(fi_log, Ev("l0x", "spawn", ok))
        /\ fi_pc' = IF ok THEN "spawn1" ELSE "start0_err"
        /\ l0_pc' = IF ok THEN "wait_edge" ELSE l0_pc
    /\ UNCHANGED <<xshuts, interrupts, xshut_level, cfg_xshut, cfg_gpio, l0_addr,
                   cfg1_xshut, cfg1_gpio, built, in_xshuts, in_interrupts>>
    /\ UNCHANGED <<l0_last_data, l0_lastOp>>
    /\ UNCHANGED busVars
    /\ UNCHANGED l1Vars
    /\ got' = NoCall
    /\ UNCHANGED mpuVars

\* VL53L1XSensor::start_continuous_measurement:
\* `spawner.spawn(distance_sensor_task(self))`, and the return of
\* init_i2c_devices when it is Ok.
L1X_spawn ==
    /\ fi_pc = "spawn1"
    /\ \E ok \in BOOLEAN :
        /\ fi_log' = Append(fi_log, Ev("l1x", "spawn", ok))
        /\ fi_pc' = IF ok THEN "done" ELSE "start1_err"
        /\ l1_pc' = IF ok THEN "wait_edge" ELSE l1_pc
    /\ UNCHANGED <<xshuts, interrupts, xshut_level, cfg_xshut, cfg_gpio, l0_addr,
                   cfg1_xshut, cfg1_gpio, built, in_xshuts, in_interrupts>>
    /\ UNCHANGED <<recovery_mode, last_data, l1_recFrom, l1_lastOp, l1_rmd,
                   l1_reads, l1_cb, l1_fails, l1_delays>>
    /\ UNCHANGED busVars
    /\ UNCHANGED l0Vars
    /\ got' = NoCall
    /\ UNCHANGED mpuVars

\* init_i2c_devices: the `.unwrap()` of an Err of start_continuous_measurement.
FI_start_failed ==
    /\ fi_pc \in {"start0_err", "start1_err"}
    /\ fi_pc' = "panicked"
    /\ UNCHANGED <<xshuts, interrupts, xshut_level, cfg_xshut, cfg_gpio, l0_addr,
                   cfg1_xshut, cfg1_gpio, built, in_xshuts, in_interrupts, fi_log>>
    /\ UNCHANGED busVars
    /\ UNCHANGED l1Vars
    /\ UNCHANGED l0Vars
    /\ got' = NoCall
    /\ UNCHANGED mpuVars

\* Sequences of distinct pins, as the caller of init_i2c_devices may pass.
PinVecs == {<<>>} \cup {<<p>> : p \in Pins}
           \cup {<<p, q>> : <<p, q>> \in {pq \in Pins \X Pins : pq[1] # pq[2]}}

\* Entry of init_i2c_devices: the bus is built and free, no sensor exists and
\* no task is spawned.
InitFleet ==
    /\ locked = FALSE
    /\ guards = {}
    /\ l1_pc = "unspawned"
    /\ recovery_mode = FALSE
    /\ last_data = DefaultData
    /\ l1_recFrom = "none"
    /\ l1_lastOp = [op |-> "none", ok |-> TRUE]
    /\ l1_rmd = DefaultData
    /\ l1_reads = <<>>
    /\ l1_cb = <<>>
    /\ l1_fails = 0
    /\ l1_delays = 0
    /\ l0_pc = "unspawned"
    /\ l0_last_data = 0
    /\ l0_lastOp = "none"
    /\ fi_pc = "start"
    /\ xshuts \in PinVecs
    /\ interrupts \in PinVecs
    /\ xshut_level \in [Pins -> {"low", "high"}]
    /\ cfg_xshut = {}
    /\ cfg_gpio = {}
    /\ l0_addr = DefaultAddr
    /\ cfg1_xshut = {}
    /\ cfg1_gpio = {}
    /\ built = {}
    /\ in_xshuts = xshuts
    /\ in_interrupts = interrupts
    /\ fi_log = <<>>
    /\ got = NoCall
    /\ MpuBuilt

NextFleet ==
    \/ FI_config0
    \/ L0X_init_set_low
    \/ L0X_init_timer
    \/ L0X_init_lock
    \/ L0X_init_set_high
    \/ L0X_init_change_address
    \/ L0X_init_with_address
    \/ FI_init0_failed

SpecInit == InitFleet /\ [][NextFleet]_vars

\* The steps VL53L0XSensor::init_new logs when every one of them returns Ok.
L0XBuiltLog ==
    <<Ev("l0x", "set_low", TRUE), Ev("l0x", "delay10", TRUE),
      Ev("l0x", "lock", TRUE), Ev("l0x", "set_high", TRUE),
      Ev("l0x", "delay10", TRUE), Ev("l0x", "blocking_write", TRUE),
      Ev("l0x", "with_address", TRUE),
      Ev("l0x", "set_measurement_timing_budget", TRUE)>>

\* init_i2c_devices at line 62, sensor 0 constructed: the state the Ok(Self)
\* of VL53L0XSensor::init_new stands for.  (As written, init_new does not get
\* there, see C3; the code after it is modelled from this state, as the
\* running tasks are modelled from Init.)  Sensor 0 has taken the first
\* reset line and the first ready line, its guard is dropped, its device
\* answers at the new address.
InitSensor0 ==
    /\ locked = FALSE
    /\ guards = {}
    /\ l1_pc = "unspawned"
    /\ recovery_mode = FALSE
    /\ last_data = DefaultData
    /\ l1_recFrom = "none"
    /\ l1_lastOp = [op |-> "none", ok |-> TRUE]
    /\ l1_rmd = DefaultData
    /\ l1_reads = <<>>
    /\ l1_cb = <<>>
    /\ l1_fails = 0
    /\ l1_delays = 0
    /\ l0_pc = "unspawned"
    /\ l0_last_data = 0
    /\ l0_lastOp = "none"
    /\ fi_pc = "config1"
    /\ in_xshuts \in PinVecs \ {<<>>}
    /\ in_interrupts \in PinVecs \ {<<>>}
    /\ xshuts = Tail(in_xshuts)
    /\ interrupts = Tail(in_interrupts)
    /\ cfg_xshut = {Head(in_xshuts)}
    /\ cfg_gpio = {Head(in_interrupts)}
    /\ xshut_level \in {l \in [Pins -> {"low", "high"}] :
                           \A p \in cfg_xshut : l[p] = "high"}
    /\ l0_addr = NewAddr
    /\ cfg1_xshut = {}
    /\ cfg1_gpio = {}
    /\ built = {"l0x"}
    /\ fi_log = L0XBuiltLog
    /\ got = NoCall
    /\ MpuBuilt

NextFleet1 ==
    \/ NextFleet
    \/ FI_config1
    \/ L1X_init_set_low
    \/ L1X_init_timer
    \/ L1X_init_set_high
    \/ L1X_init_lock
    \/ L1X_init_data_init
    \/ L1X_init_configure
    \/ L1X_init_start_measurement
    \/ FI_init1_failed
    \/ L0X_start_lock
    \/ L0X_start_continuous
    \/ L0X_spawn
    \/ L1X_spawn
    \/ FI_start_failed

\* init_i2c_devices: from its entry, and from the construction of sensor 0.
SpecFleet == (InitFleet \/ InitSensor0) /\ [][NextFleet1]_vars

\* InitSensor0 for one board: the lines <<1, 2>>, all reset lines high.
InitSensor0Run ==
    /\ InitSensor0
    /\ in_xshuts = <<1, 2>>
    /\ in_interrupts = <<1, 2>>
    /\ xshut_level = [p \in Pins |-> "high"]

\* The tasks run from their spawn on, next to the initializer; a panic halts
\* the process, the tasks with it.
NextFleetRun ==
    \/ NextFleet1
    \/ (fi_pc # "panicked" /\ L0X_task)
    \/ (fi_pc # "panicked" /\ L1X_task)

\* init_i2c_devices together with the tasks it spawns.
SpecFleetRun == (InitFleet \/ InitSensor0Run) /\ [][NextFleetRun]_vars

\* ================================================================ claims

\* ---- C1 ----------------------------------------------------------------
\* The VL53L1X task waiting for the mutex while the other task holds it and
\* can release it.
L1X_blocked_on_bus ==
    /\ l1_pc \in L1BusPcs
    /\ ~Holds("l1x")
    /\ Holds("l0x")
    /\ ENABLED L0X_read_range_mm

\* C1: whatever the outcomes of the probe, read, rearm, stop and start were,
\* the VL53L1X task is never terminated or panicked: in every reachable state
\* it has a next step, or it waits for the mutex its sibling is about to drop.
C1_TaskNeverStops ==
    /\ l1_pc \in L1Pcs \ {"terminated", "unspawned"}
    /\ (ENABLED L1X_task) \/ L1X_blocked_on_bus

\* After a failed recovery and two failed probes the task can still step.
C1_Witness ==
    /\ l1_pc = "probe_delay"
    /\ recovery_mode
    /\ l1_fails = 2
    /\ l1_lastOp = [op |-> "probe", ok |-> FALSE]
    /\ ENABLED L1X_task

\* ---- C2 ----------------------------------------------------------------
\* C2: at most one of the two sensor tasks holds the bus guard, and the mutex
\* is locked exactly while a guard is live.
C2_MutualExclusion ==
    /\ Cardinality(guards) <= 1
    /\ locked <=> (guards # {})

\* One task holds the guard while the other one is asking for it.
C2_Witness ==
    /\ Holds("l1x")
    /\ l0_pc = "read"
    /\ ~Holds("l0x")

\* ---- C3 ----------------------------------------------------------------
BusRequested ==
    \/ l1_pc \in L1BusPcs /\ ~Holds("l1x")
    \/ l0_pc = "read" /\ ~Holds("l0x")
    \/ fi_pc \in {"l0_lock", "l0_with_address"}

\* A step of whoever holds the guard.
HolderStep ==
    \/ Holds("l1x") /\ L1X_task
    \/ Holds("l0x") /\ L0X_task
    \/ Holds("init") /\ NextFleet

\* C3: the bus never deadlocks: whenever the guard is requested while it is
\* held, its holder has a step to take (towards releasing it), also inside
\* VL53L0XSensor::init_new.
C3_NoBusDeadlock ==
    (BusRequested /\ locked) => ENABLED <<HolderStep>>_vars

\* ---- C4 ----------------------------------------------------------------
\* C4: a sensor suspended in a timed delay or in the wait for the ready-signal
\* edge holds no bus guard, in init_new and in the tasks.
C4_NoGuardWhileSuspended ==
    /\ (L1Timer \in {ProbeRetryMs, RecoverDelayMs, RecoverFailedMs}
          \/ l1_pc = "wait_edge") => ~Holds("l1x")
    /\ l0_pc = "wait_edge" => ~Holds("l0x")
    /\ fi_pc \in FiTimerPcs => ~Holds("init")

\* ---- C5 ----------------------------------------------------------------
\* The step of the VL53L1X task that performs the bus operation of position
\* pc: the task holds the guard before it and has dropped it after it.
OpStep(pc) == l1_pc = pc /\ Holds("l1x") /\ ~("l1x" \in guards')

\* The step in which get_ranging_measurement_data returns Ok(rmd).
ReadOkStep == OpStep("read") /\ l1_lastOp'.ok

\* C5 as stated: every successful read whose status is not Valid is recorded
\* as last_data, and no callback is invoked in that cycle.
C5_NonValidRecorded ==
    [][(ReadOkStep /\ l1_rmd'.status # "Valid")
          => (last_data' = l1_rmd' /\ l1_cb' = l1_cb)]_vars

\* C5 amended: a successful read with status SIGNAL_FAIL leaves last_data as
\* it was, a successful read with any other status (another failure status or
\* Valid) is recorded as last_data, and no callback is invoked in either case.
C5_SignalFailDropped ==
    [][ReadOkStep
          => /\ l1_rmd'.status = "SignalFail" => last_data' = last_data
             /\ l1_rmd'.status # "SignalFail" => last_data' = l1_rmd'
             /\ l1_cb' = l1_cb]_vars

\* A SIGNAL_FAIL read has just been dropped: last_data still holds the value
\* of an earlier read.
C5_Witness ==
    /\ l1_pc = "rearm"
    /\ l1_lastOp = [op |-> "read", ok |-> TRUE]
    /\ l1_rmd.status = "SignalFail"
    /\ last_data \in RangingMeasurementData
    /\ last_data.range # l1_rmd.range

\* ---- C6 ----------------------------------------------------------------
\* C6: the callback has been invoked once for every successful Valid read, the
\* k-th call with the k-th value read.
C6_CallbackPerValidRead == l1_cb = l1_reads

\* ---- C7 ----------------------------------------------------------------
\* recover_sensor is running, called from the given site ("read" or "rearm").
InRecoverFrom(site) ==
    /\ l1_recFrom = site
    /\ l1_pc \in {"rec_stop", "rec_delay", "rec_start"}

\* The step in which start_measurement of recover_sensor returns Ok.
StartOkStep == OpStep("rec_start") /\ l1_lastOp'.ok

\* C7: when the rearm fails and the stop / 100 ms / start that follows
\* succeeds, recovery_mode is false from the failed rearm on, and the task
\* goes back to waiting for the ready-signal edge.
C7_RearmRecoveredStaysNormal ==
    /\ [](InRecoverFrom("rearm") => ~recovery_mode)
    /\ [][(OpStep("rearm") /\ ~l1_lastOp'.ok)
             => (~recovery_mode' /\ l1_pc' = "rec_stop" /\ l1_recFrom' = "rearm")]_vars
    /\ [][(StartOkStep /\ l1_recFrom = "rearm")
             => (~recovery_mode' /\ l1_pc' = "wait_edge")]_vars

\* Back at the edge wait after a failed rearm and a successful recovery.
C7_Witness ==
    /\ l1_pc = "wait_edge"
    /\ ~recovery_mode
    /\ l1_recFrom = "rearm"
    /\ l1_lastOp = [op |-> "start", ok |-> TRUE]

\* ---- C8 ----------------------------------------------------------------
\* C8: when a read fails and the stop/start recovery succeeds, the cycle
\* invokes no callback, leaves last_data unchanged and issues no rearm, and
\* the next cycle starts in Normal, waiting for the ready-signal edge.
C8_ReadRecoveredCycle ==
    /\ [][(OpStep("read") /\ ~l1_lastOp'.ok)
             => (last_data' = last_data /\ l1_cb' = l1_cb
                 /\ l1_pc' = "rec_stop" /\ l1_recFrom' = "read")]_vars
    /\ [][InRecoverFrom("read")
             => (last_data' = last_data /\ l1_cb' = l1_cb /\ l1_pc' # "rearm")]_vars
    /\ [][(StartOkStep /\ l1_recFrom = "read")
             => (~recovery_mode' /\ l1_pc' = "wait_edge")]_vars

\* Back at the edge wait after a failed read and a successful recovery, the
\* value of an earlier read still in last_data.
C8_Witness ==
    /\ l1_pc = "wait_edge"
    /\ ~recovery_mode
    /\ l1_recFrom = "read"
    /\ l1_lastOp = [op |-> "start", ok |-> TRUE]
    /\ last_data \in RangingMeasurementData

\* ---- C9 ----------------------------------------------------------------
\* The step in which start_measurement of recover_sensor returns Err.
StartErrStep == OpStep("rec_start") /\ ~l1_lastOp'.ok

\* C9: a failed stop/start recovery leads to Recovering (after the 500 ms);
\* from there the task never waits for the edge, suspends for 10 ms once per
\* failed probe and not after the successful one, enters Recovering only by
\* the failed recovery and leaves it only at the successful probe, which is
\* followed by the read.
C9_PollingUntilReady ==
    /\ [](recovery_mode => l1_pc \in {"backoff", "probe", "probe_delay"})
    /\ [](l1_pc = "wait_edge" => l1_lastOp \notin
            {[op |-> "start", ok |-> FALSE], [op |-> "probe", ok |-> FALSE]})
    /\ []((l1_pc = "probe" /\ ~Holds("l1x") /\ recovery_mode) => l1_delays = l1_fails)
    /\ [](l1_pc = "probe_delay" => (L1Timer = ProbeRetryMs /\ l1_fails = Inc(l1_delays)))
    /\ []((l1_pc = "read" /\ l1_lastOp = [op |-> "probe", ok |-> TRUE])
            => (~recovery_mode /\ l1_delays = l1_fails))
    /\ [][StartErrStep => l1_pc' = "backoff"]_vars
    /\ [][(l1_pc = "backoff" /\ l1_pc' # "backoff")
             => (l1_pc' = "probe" /\ recovery_mode')]_vars
    /\ [][(~recovery_mode /\ recovery_mode')
             => l1_lastOp' = [op |-> "start", ok |-> FALSE]]_vars
    /\ [][(recovery_mode /\ ~recovery_mode')
             => (l1_pc = "probe" /\ l1_pc' = "read"
                 /\ l1_lastOp' = [op |-> "probe", ok |-> TRUE])]_vars

\* Three probes failed, the fourth succeeded: three 10 ms suspensions, and the
\* task is at the read, back in Normal.
C9_Witness ==
    /\ l1_pc = "read"
    /\ l1_lastOp = [op |-> "probe", ok |-> TRUE]
    /\ l1_fails = 3
    /\ l1_delays = 3
    /\ ~recovery_mode

\* ---- C10 ---------------------------------------------------------------
PollPcs == {"probe", "probe_delay"}

\* C10 as stated: the task does not stay in the polling fallback for ever;
\* under a persistently failing probe it goes on to another stop/start.
C10_PollingEscalates == []<>(l1_pc \notin PollPcs)

\* C10 amended: the stop/start recovery is re-entered only by a failed read
\* (after a successful probe) or a failed rearm; a failed readiness probe is
\* followed by a 10 ms suspension and the next probe, never by stop/start, so
\* a persistently failing probe is repeated every 10 ms without bound.
C10_OnlyReadReentersRecovery ==
    /\ [][(OpStep("probe") /\ ~l1_lastOp'.ok) => l1_pc' = "probe_delay"]_vars
    /\ [][l1_pc = "probe_delay" => l1_pc' \in PollPcs]_vars
    /\ [][(l1_pc # "rec_stop" /\ l1_pc' = "rec_stop")
             => (l1_pc \in {"read", "rearm"} /\ ~l1_lastOp'.ok)]_vars
    /\ [][(OpStep("read") /\ ~l1_lastOp'.ok) => l1_pc' = "rec_stop"]_vars

\* The read that followed a successful probe (after failed ones) has failed,
\* and the task is about to stop and restart the device.
C10_Witness ==
    /\ l1_pc = "rec_stop"
    /\ l1_recFrom = "read"
    /\ l1_lastOp = [op |-> "read", ok |-> FALSE]
    /\ l1_fails >= 1
    /\ l1_delays = l1_fails

\* ---- C11 ---------------------------------------------------------------
\* From some point on every device operation of the VL53L1X succeeds (the
\* probe reports ready, read, rearm, stop and start return Ok).
EventuallyAllOk == <>[](l1_lastOp.ok)

\* A read has just been recorded in last_data.
JustRecorded ==
    /\ l1_pc = "rearm"
    /\ l1_lastOp = [op |-> "read", ok |-> TRUE]
    /\ last_data = l1_rmd

\* C11 as stated: if from some point on every device operation succeeds and
\* the ready edges arrive, the task records a new measurement in last_data
\* again and again.
C11_EventuallyRecords == EventuallyAllOk => []<>JustRecorded

\* C11 amended: the same, provided the successful reads do not all carry the
\* status SIGNAL_FAIL from some point on (such a read is not recorded).
C11_EventuallyRecordsUnlessSignalFail ==
    (EventuallyAllOk /\ []<>(l1_rmd.status # "SignalFail")) => []<>JustRecorded

\* A measurement recorded after the task had been through Recovering with
\* failed probes.
C11_Witness ==
    /\ JustRecorded
    /\ l1_recFrom \in {"read", "rearm"}
    /\ l1_fails >= 1

\* ---- C19 ---------------------------------------------------------------
RecoverPcs == {"rec_stop", "rec_delay", "rec_start"}

\* C19: a failed read or rearm is not repeated: the task's next device
\* operation is the stop, then comes the 100 ms suspension, then the start,
\* and after the start (whatever its outcome) the task is out of the recovery
\* sequence and at no read or rearm; no step passes anything to the callback.
C19_FailureRecoveredOnce ==
    /\ []((l1_lastOp.op \in {"read", "rearm"} /\ ~l1_lastOp.ok) => l1_pc = "rec_stop")
    /\ [](l1_pc = "rec_delay" => (L1Timer = RecoverDelayMs /\ l1_lastOp.op = "stop"))
    /\ [](l1_pc = "rec_start" => l1_lastOp.op = "stop")
    /\ [][(l1_pc = "rec_stop" /\ l1_pc' # l1_pc)
             => (l1_pc' = "rec_delay" /\ l1_lastOp'.op = "stop")]_vars
    /\ [][(l1_pc = "rec_delay" /\ l1_pc' # l1_pc) => l1_pc' = "rec_start"]_vars
    /\ [][OpStep("rec_start")
             => (l1_lastOp'.op = "start"
                 /\ l1_pc' \notin RecoverPcs \cup {"read", "rearm"})]_vars
    /\ [][l1_cb' = l1_cb]_vars

\* The rearm failed, the stop failed too (its result is dropped), the 100 ms
\* have passed and the start is next.
C19_Witness ==
    /\ l1_pc = "rec_start"
    /\ l1_recFrom = "rearm"
    /\ l1_lastOp = [op |-> "stop", ok |-> FALSE]
    /\ l1_reads # <<>>

\* ---- C20 ---------------------------------------------------------------
StartFailed == l1_lastOp = [op |-> "start", ok |-> FALSE]

\* C20: after a failed stop/start recovery, called from the read or from the
\* rearm, the task is suspended for 500 ms, without the guard, and the bus
\* operation that follows the suspension is the readiness probe.
C20_BackoffAfterFailedRecovery ==
    /\ [][StartErrStep
             => (l1_pc' = "backoff" /\ l1_recFrom \in {"read", "rearm"})]_vars
    /\ [](l1_pc = "backoff"
            => (L1Timer = RecoverFailedMs /\ StartFailed /\ ~Holds("l1x")))
    /\ [](StartFailed => l1_pc \in {"backoff", "probe"})
    /\ [][(StartFailed /\ l1_pc # "probe" /\ l1_pc' = "probe") => l1_pc = "backoff"]_vars
    /\ [][(l1_pc = "backoff" /\ l1_pc' # l1_pc) => l1_pc' = "probe"]_vars

\* The recovery called from the rearm has failed, the 500 ms have passed and
\* the task holds the guard for the readiness probe.
C20_Witness ==
    /\ l1_pc = "probe"
    /\ Holds("l1x")
    /\ StartFailed
    /\ l1_recFrom = "rearm"
    /\ recovery_mode

\* ---- C12 ---------------------------------------------------------------
\* The latest step init_i2c_devices logged.
LastEv == IF fi_log = <<>> THEN Ev("none", "none", TRUE) ELSE fi_log[Len(fi_log)]

\* start_continuous_measurement of a sensor has returned Err.
StartErrPcs == {"start0_err", "start1_err"}

Sensors == {"l0x", "l1x"}

\* The steps of sensor s in the log, the acquisitions of the guard left out.
Steps(s) == SelectSeq(fi_log, LAMBDA ev : ev.s = s /\ ev.e # "lock")

\* The reset pulse of init_new.
Pulse(s) == <<Ev(s, "set_low", TRUE), Ev(s, "delay10", TRUE),
              Ev(s, "set_high", TRUE), Ev(s, "delay10", TRUE)>>
PulseNames == {"set_low", "set_high", "delay10"}

\* The reset line the Config of sensor s holds.
XshutOf(s) == IF s = "l0x" THEN cfg_xshut ELSE cfg1_xshut

\* C13: in init_new of either sensor the steps start with the reset pulse
\* (line low, 10 ms, line high, 10 ms) and every step after it, the first bus
\* transaction included, comes after the second delay, with the line high.
C13_ResetPulseFirst ==
    \A s \in Sensors :
        LET q == Steps(s)
        IN IF Len(q) <= 4
           THEN q = SubSeq(Pulse(s), 1, Len(q))
           ELSE /\ SubSeq(q, 1, 4) = Pulse(s)
                /\ \A i \in 5..Len(q) : q[i].e \notin PulseNames
                /\ \A p \in XshutOf(s) : xshut_level[p] = "high"

\* The first bus transaction of the VL53L1X bring-up has just been done.
C13_Witness ==
    /\ fi_pc = "static_init"
    /\ LastEv = Ev("l1x", "data_init", TRUE)
    /\ Steps("l1x") = Pulse("l1x") \o <<LastEv>>

\* ---- C14 ---------------------------------------------------------------
\* The measurement task of sensor s has been spawned.
Spawned(s) == IF s = "l0x" THEN l0_pc # "unspawned" ELSE l1_pc # "unspawned"

StartNames == {"start_continuous", "spawn"}

\* A bring-up step of init_new of sensor s has failed.
BringUpFailed(s) ==
    \E i \in DOMAIN fi_log :
        /\ fi_log[i].s = s
        /\ ~fi_log[i].ok
        /\ fi_log[i].e \notin StartNames

\* C14: when a bring-up step fails, init_new returns at that step (it is the
\* last step logged), the guard is not held, and the sensor is never built
\* nor its task spawned.
C14_InitFailureStops ==
    /\ fi_pc \in {"l0_err", "l1_err"} => (~LastEv.ok /\ ~locked /\ guards = {})
    /\ \A s \in Sensors :
          BringUpFailed(s) => /\ ~LastEv.ok
                              /\ LastEv.s = s
                              /\ fi_pc \in {"l0_err", "l1_err", "panicked"}
                              /\ s \notin built
                              /\ ~Spawned(s)
    /\ \A s \in Sensors : Spawned(s) => s \in built

\* set_user_roi of the VL53L1X has reported an error: init_new has returned
\* it, after data_init had used and dropped the guard.
C14_Witness ==
    /\ fi_pc = "l1_err"
    /\ LastEv = Ev("l1x", "set_user_roi", FALSE)
    /\ built = {"l0x"}
    /\ ~locked

\* ---- C15 ---------------------------------------------------------------
FiErrPcs == {"l0_err", "l1_err"} \cup StartErrPcs

\* C15: init_i2c_devices returns only with both sensors built, both tasks
\* spawned and no step failed; a failed step is the last step of the
\* initializer, which panics after it and does nothing more.
C15_AllOrNothing ==
    /\ [](fi_pc = "done"
            => /\ built = Sensors
               /\ \A s \in Sensors : Spawned(s)
               /\ \A i \in DOMAIN fi_log : fi_log[i].ok)
    /\ [](\A i \in DOMAIN fi_log :
            ~fi_log[i].ok => (i = Len(fi_log) /\ fi_pc \in FiErrPcs \cup {"panicked"}))
    /\ [][(fi_pc \in FiErrPcs)
             => /\ fi_pc' = "panicked"
                /\ UNCHANGED <<fi_log, built, busVars, l1Vars, l0Vars>>]_vars
    /\ [][fi_pc = "panicked" => UNCHANGED vars]_vars

\* The last bring-up step of sensor 1 failed and the initializer has
\* panicked, sensor 0 built and no task spawned.
C15_Witness ==
    /\ fi_pc = "panicked"
    /\ LastEv = Ev("l1x", "start_measurement", FALSE)
    /\ built = {"l0x"}
    /\ ~Spawned("l0x")
    /\ ~Spawned("l1x")

\* ---- C16 ---------------------------------------------------------------
\* The phase a step belongs to: 1 the reset pulse, 2 the bring-up, 3 the start.
Phase(ev) == IF ev.e \in PulseNames THEN 1 ELSE IF ev.e \in StartNames THEN 3 ELSE 2

\* C16: the steps of each sensor are ordered reset pulse, bring-up, start; a
\* start step is made, and a task spawned, only for a sensor that is built.
C16_ToggleInitStart ==
    /\ [](\A s \in Sensors :
            LET q == Steps(s)
            IN \A i, j \in DOMAIN q : i < j => Phase(q[i]) <= Phase(q[j]))
    /\ [](\A i \in DOMAIN fi_log : fi_log[i].e \in StartNames => fi_log[i].s \in built)
    /\ [](fi_pc \in {"start0", "spawn0", "start0_err"} => "l0x" \in built)
    /\ [](fi_pc \in {"spawn1", "start1_err", "done"} => "l1x" \in built)
    /\ [][\A s \in Sensors : (s \notin built /\ s \in built')
             => (LastEv'.s = s /\ LastEv'.ok /\ Phase(LastEv') = 2)]_vars

\* init_i2c_devices has returned: both sensors went through the pulse, the
\* bring-up and the start.
C16_Witness ==
    /\ fi_pc = "done"
    /\ LastEv = Ev("l1x", "spawn", TRUE)
    /\ Spawned("l0x")
    /\ Len(Steps("l1x")) = 12

\* ---- C17 ---------------------------------------------------------------
\* The k-th element of a sequence as a set, empty when there is none.
Nth(v, k) == IF k \in DOMAIN v THEN {v[k]} ELSE {}

\* C17: sensor 0 holds the first reset line and the first ready line of the
\* input, sensor 1 the second ones; a sensor that is built holds both its
\* lines; no line is held by both sensors, and a line handed out is no more
\* in the collection.
C17_PinsInOrder ==
    /\ cfg_xshut \in {{}, Nth(in_xshuts, 1)}
    /\ cfg_gpio \in {{}, Nth(in_interrupts, 1)}
    /\ cfg1_xshut \in {{}, Nth(in_xshuts, 2)}
    /\ cfg1_gpio \in {{}, Nth(in_interrupts, 2)}
    /\ "l0x" \in built => (cfg_xshut # {} /\ cfg_gpio # {})
    /\ "l1x" \in built => (cfg1_xshut # {} /\ cfg1_gpio # {})
    /\ cfg_xshut \cap cfg1_xshut = {}
    /\ cfg_gpio \cap cfg1_gpio = {}
    /\ \A i \in DOMAIN xshuts : xshuts[i] \notin cfg_xshut \cup cfg1_xshut
    /\ \A i \in DOMAIN interrupts : interrupts[i] \notin cfg_gpio \cup cfg1_gpio

\* Both sensors built from the lines <<2, 1>> and <<1, 2>>.
C17_Witness ==
    /\ built = Sensors
    /\ in_xshuts = <<2, 1>>
    /\ in_interrupts = <<1, 2>>
    /\ cfg_xshut = {2}
    /\ cfg1_xshut = {1}
    /\ cfg_gpio = {1}
    /\ cfg1_gpio = {2}

\* ---- C18 ---------------------------------------------------------------
\* A step in which get_latest_measurement returns.
GetStep(sensor) == got'.sensor = sensor

\* C18: get_latest_measurement returns last_data, which is the default value
\* until the sensor's task records a read and changes in no step but a
\* successful read of that task; the call can be made in every state, also
\* while the mutex is locked, and changes nothing of the mutex, the tasks,
\* last_data, recovery_mode and the device.
C18_GetterIsSnapshot ==
    /\ [][GetStep("l1x") => got'.value = last_data]_vars
    /\ [][GetStep("l0x") => got'.value = l0_last_data]_vars
    /\ [][(GetStep("l1x") \/ GetStep("l0x"))
             => UNCHANGED <<busVars, l1Vars, l0Vars, fiVars>>]_vars
    /\ [](ENABLED L1X_get_latest_measurement /\ ENABLED L0X_get_latest_measurement)
    /\ [](l1_lastOp.op \in {"start", "none"} /\ l1_reads = <<>> /\ l1_rmd = DefaultData
            => last_data = DefaultData)
    /\ [][last_data' # last_data => (ReadOkStep /\ last_data' = l1_rmd')]_vars
    /\ [][l0_last_data' # l0_last_data
             => (l0_pc = "read" /\ Holds("l0x") /\ l0_lastOp' = "Ok")]_vars

\* The getter has returned the recorded value, not the SIGNAL_FAIL read that
\* came after it, while the task holds the guard for the rearm.
C18_Witness ==
    /\ got = [sensor |-> "l1x", value |-> last_data]
    /\ last_data \in RangingMeasurementData
    /\ l1_rmd.status = "SignalFail"
    /\ l1_pc = "rearm"
    /\ Holds("l1x")

\* ---- C21 ---------------------------------------------------------------
\* C21: a successful read, whatever its status, is followed by the rearm and
\* leaves recovery_mode and the site of the latest recovery as they were; the
\* stop/start recovery is entered only with a failed read or rearm behind.
C21_NonValidNoRecovery ==
    /\ [][ReadOkStep
             => /\ l1_pc' = "rearm"
                /\ recovery_mode' = recovery_mode
                /\ l1_recFrom' = l1_recFrom]_vars
    /\ [](l1_pc = "rec_stop" => (l1_lastOp.op \in {"read", "rearm"} /\ ~l1_lastOp.ok))
    /\ []((l1_lastOp.op = "read" /\ l1_lastOp.ok) => (l1_pc = "rearm" /\ ~recovery_mode))

\* A read has returned a status that is neither Valid nor SIGNAL_FAIL, and the
\* task holds the guard for the rearm, still in Normal.
C21_Witness ==
    /\ l1_pc = "rearm"
    /\ Holds("l1x")
    /\ l1_lastOp = [op |-> "read", ok |-> TRUE]
    /\ l1_rmd.status = "OtherFail"
    /\ ~recovery_mode

\* ---- C22 ---------------------------------------------------------------
\* The stop of recover_sensor has failed.
StopFailed == l1_lastOp = [op |-> "stop", ok |-> FALSE]

\* C22: recover_sensor goes from the stop to the 100 ms delay and to the
\* start whatever the stop returned; a successful start, also after a failed
\* stop, sends the task back to the edge wait in Normal, and a failed start
\* sends it to the 500 ms suspension.
C22_StopOutcomeIgnored ==
    /\ [][OpStep("rec_stop") => (l1_lastOp'.op = "stop" /\ l1_pc' = "rec_delay")]_vars
    /\ []((l1_lastOp.op = "stop") <=> (l1_pc \in {"rec_delay", "rec_start"}))
    /\ [](l1_pc = "rec_delay" => L1Timer = RecoverDelayMs)
    /\ [][(l1_pc = "rec_delay" /\ l1_pc' # l1_pc) => l1_pc' = "rec_start"]_vars
    /\ [][StartOkStep => (l1_pc' = "wait_edge" /\ ~recovery_mode')]_vars
    /\ [][StartErrStep => l1_pc' = "backoff"]_vars
    /\ []((l1_pc = "rec_start" /\ Holds("l1x") /\ StopFailed)
            => ENABLED (L1X_start_measurement /\ l1_lastOp'.ok /\ l1_pc' = "wait_edge"))

\* The stop failed, the 100 ms have passed, and the start that is about to be
\* done can succeed and end the recovery.
C22_Witness ==
    /\ l1_pc = "rec_start"
    /\ Holds("l1x")
    /\ StopFailed
    /\ l1_recFrom = "read"
    /\ ENABLED (L1X_start_measurement /\ l1_lastOp'.ok /\ l1_pc' = "wait_edge")

\* ---- C23 ---------------------------------------------------------------
\* C23: while the task waits for the ready-signal edge, recovery_mode is false
\* and its latest device operation is a successful start or a successful
\* rearm; the task enters the wait only by such an operation.
C23_EdgeWaitAfterArmed ==
    /\ [](l1_pc = "wait_edge"
            => /\ ~recovery_mode
               /\ l1_lastOp \in {[op |-> "start", ok |-> TRUE],
                                 [op |-> "rearm", ok |-> TRUE]})
    /\ [][(l1_pc # "wait_edge" /\ l1_pc' = "wait_edge")
             => (l1_pc \in {"rearm", "rec_start"} /\ l1_lastOp'.ok)]_vars

\* The task waits for the edge after a rearm that followed the polling path.
C23_Witness ==
    /\ l1_pc = "wait_edge"
    /\ l1_lastOp = [op |-> "rearm", ok |-> TRUE]
    /\ l1_fails >= 1
    /\ l1_delays = l1_fails
    /\ ~recovery_mode

\* ---- C24 ---------------------------------------------------------------
\* The step of the VL53L0X task that performs read_range_mm.
L0ReadStep == l0_pc = "read" /\ Holds("l0x") /\ ~("l0x" \in guards')

\* C24: the VL53L0X task only waits for the edge and reads; after every read,
\* failed or not, it waits for the next edge; a read that is not Ok leaves
\* last_data as it was, and last_data changes only in an Ok read.
C24_L0XNoRecovery ==
    /\ [](l0_pc \in {"wait_edge", "read"})
    /\ [][L0ReadStep => l0_pc' = "wait_edge"]_vars
    /\ [][(L0ReadStep /\ l0_lastOp' # "Ok") => l0_last_data' = l0_last_data]_vars
    /\ [][l0_last_data' # l0_last_data
             => (L0ReadStep /\ l0_lastOp' = "Ok" /\ l0_last_data' \in Distances)]_vars
    /\ [][(l0_pc = "wait_edge" /\ l0_pc' # l0_pc) => l0_pc' = "read"]_vars

\* A read has failed after a successful one: the task waits for the next edge
\* with the value of the earlier read.
C24_Witness ==
    /\ l0_pc = "wait_edge"
    /\ l0_lastOp = "Other"
    /\ l0_last_data = 77
    /\ ~Holds("l0x")

\* ---- C26 ---------------------------------------------------------------
\* The positions of init_i2c_devices at which both init_new have returned Ok.
StartPcs == {"start0", "spawn0", "start0_err", "spawn1", "start1_err", "done",
             "panicked"}

\* A measurement task is at, or inside, a bus operation.
TaskOnBus == l0_pc = "read" \/ l1_pc \in L1BusPcs

\* C26: a task is spawned only when both sensors are built and the
\* initializer is past both init_new; every spawn is logged after every step
\* of the reset pulses and bring-ups; a task at a bus operation never meets
\* an init_new in progress or its guard.
C26_InitsBeforeTasks ==
    /\ \A s \in Sensors : Spawned(s) => (built = Sensors /\ fi_pc \in StartPcs)
    /\ \A i, j \in DOMAIN fi_log :
          (fi_log[i].e = "spawn" /\ fi_log[j].e \notin StartNames \cup {"lock"}) => j < i
    /\ TaskOnBus => (built = Sensors /\ fi_pc \in StartPcs /\ ~Holds("init"))

\* The VL53L0X task reads on the bus while the initializer, past both
\* init_new, is about to spawn the VL53L1X task.
C26_Witness ==
    /\ l0_pc = "read"
    /\ Holds("l0x")
    /\ fi_pc = "spawn1"
    /\ built = Sensors
    /\ LastEv = Ev("l0x", "spawn", TRUE)

\* ---- C25 ---------------------------------------------------------------
\* The positions of data_fetch_task.
MpuTaskPcs == {"wait_edge", "all", "notify"}

\* The step of the MPU9250 task that performs device.all().
MpuReadStep == mpu_pc = "all" /\ mpu_pc' # mpu_pc

\* The step of the MPU9250 task that calls the callback.
MpuNotifyStep == mpu_pc = "notify" /\ mpu_pc' # mpu_pc

\* C25: whenever data_fetch_task runs the callback is set and the unwrap
\* never panics; an Ok read replaces last_data with the value read and goes
\* on to the callback, which is invoked once with last_data before the next
\* edge wait; a failed read leaves last_data and the invocations as they
\* were and goes back to the edge wait; the callback is invoked nowhere else.
C25_CallbackSetAndInvoked ==
    /\ [](mpu_pc \in MpuTaskPcs => on_new_data \in {{c} : c \in Callbacks})
    /\ [](mpu_pc # "panicked")
    /\ [](mpu_pc \in {"wait_edge", "all"} => mpu_cb = mpu_reads)
    /\ [](mpu_pc = "notify" => mpu_reads = Log(mpu_cb, mpu_last_data))
    /\ [][(MpuReadStep /\ mpu_lastOp' = "Ok")
             => /\ mpu_last_data' \in MargMeasurements
                /\ mpu_reads' = Log(mpu_reads, mpu_last_data')
                /\ mpu_cb' = mpu_cb
                /\ mpu_pc' = "notify"]_vars
    /\ [][(MpuReadStep /\ mpu_lastOp' = "Err")
             => /\ mpu_last_data' = mpu_last_data
                /\ mpu_cb' = mpu_cb
                /\ mpu_pc' = "wait_edge"]_vars
    /\ [][MpuNotifyStep
             => /\ mpu_cb' = Log(mpu_cb, mpu_last_data)
                /\ mpu_last_data' = mpu_last_data
                /\ mpu_pc' = "wait_edge"]_vars
    /\ [][mpu_cb' # mpu_cb => MpuNotifyStep]_vars
    /\ [][mpu_last_data' # mpu_last_data
             => (MpuReadStep /\ mpu_lastOp' = "Ok")]_vars

\* A read has failed after one delivered to the callback: the task waits for
\* the next edge with the delivered value and one invocation.
C25_Witness ==
    /\ mpu_pc = "wait_edge"
    /\ mpu_lastOp = "Err"
    /\ on_new_data = {"cb2"}
    /\ mpu_last_data = [marg |-> 32]
    /\ mpu_reads = <<[marg |-> 32]>>
    /\ mpu_cb = <<[marg |-> 32]>>

====
